---------------------------- MODULE Spec2Model ----------------------------
(***************************************************************************)
(* A model of the PSBoxs library (src/src/lib.rs): the bit-vector codec    *)
(* (bits2num, num2bits), SBox (check_table, max_bits, ceil_log,            *)
(* reverse_table, transform) and PBox (is_permutation,                     *)
(* reverse_permutation, transform).                                        *)
(*                                                                         *)
(* Representation.                                                         *)
(*   - A bit vector (&[bool], Vec<bool>) is a sequence of BOOLEAN.         *)
(*   - A u32 that the codec or a bit mask computes with is a record        *)
(*     [hi, lo] of two 16-bit halves, so that the whole range 0..2^32-1    *)
(*     and the loss of bits shifted out at the top are represented.        *)
(*   - Table and permutation entries (u32 in the code) and every usize     *)
(*     are naturals; the inputs of the model keep them below 2^31.         *)
(*   - A Rust index i (0-based) is the TLA+ index i + 1.                   *)
(*   - A call returns a record [tag, val]: tag "Ok" with the value, the    *)
(*     tag of the Err returned, or "Panic" when the code panics (an index  *)
(*     out of bounds, split_at beyond the length).                         *)
(*   - A for loop is ForRange over the loop's body: the body takes the    *)
(*     loop's variables before pass i and gives them after it.  A loop     *)
(*     that the code leaves early carries that in its variables, and the   *)
(*     passes that follow leave them as they are.                          *)
(***************************************************************************)
EXTENDS Integers, Sequences, FiniteSets, TLC

\* e, with v evaluated first
Strict(v, e) == IF v = v THEN e ELSE e

\* `for i in lo..hi` (hi excluded): the passes lo, lo + 1, ..., hi - 1 in this order,
\* from the variables `state`.  The range is split in two halves, run one after the
\* other, rather than peeled pass by pass: the evaluation stays shallow.
RECURSIVE ForRange(_, _, _, _)
ForRange(Body(_, _), state, lo, hi) ==
    IF lo >= hi THEN state
    ELSE IF hi = lo + 1 THEN Body(state, lo)
    ELSE LET mid == (lo + hi) \div 2
             half == ForRange(Body, state, lo, mid)
         IN Strict(half, ForRange(Body, half, mid, hi))

-----------------------------------------------------------------------------
(* u32 arithmetic on 16-bit halves *)

Half == 2^16

u32_zero == [hi |-> 0, lo |-> 0]

\* `x as u32` for a natural x below 2^31
as_u32(x) == [hi |-> (x \div Half) % Half, lo |-> x % Half]

\* `u as usize` (usize is 64 bits wide: the value is kept); u below 2^31 here
as_usize(u) == u.hi * Half + u.lo

RECURSIVE BitOr(_, _)
BitOr(a, b) ==
    IF a = 0 THEN b
    ELSE IF b = 0 THEN a
    ELSE (IF a % 2 = 1 \/ b % 2 = 1 THEN 1 ELSE 0) + 2 * BitOr(a \div 2, b \div 2)

RECURSIVE BitAnd(_, _)
BitAnd(a, b) ==
    IF a = 0 \/ b = 0 THEN 0
    ELSE (IF a % 2 = 1 /\ b % 2 = 1 THEN 1 ELSE 0) + 2 * BitAnd(a \div 2, b \div 2)

u32_or(a, b) == [hi |-> BitOr(a.hi, b.hi), lo |-> BitOr(a.lo, b.lo)]

u32_and(a, b) == [hi |-> BitAnd(a.hi, b.hi), lo |-> BitAnd(a.lo, b.lo)]

\* u << c for a shift c below 32 (the code never shifts a u32 by more):
\* the bits shifted out at the top are lost
u32_shl(u, c) ==
    IF c < 16
    THEN [hi |-> (u.hi * 2^c + u.lo \div 2^(16 - c)) % Half, lo |-> (u.lo * 2^c) % Half]
    ELSE [hi |-> (u.lo * 2^(c - 16)) % Half, lo |-> 0]

\* u >> 1
u32_shr1(u) == [hi |-> u.hi \div 2, lo |-> u.lo \div 2 + (u.hi % 2) * 2^15]

-----------------------------------------------------------------------------
(* The bit-vector codec, lib.rs 1-21 *)

\* `bit as u32`
bit_as_u32(bit) == [hi |-> 0, lo |-> IF bit THEN 1 ELSE 0]

\* for &bit in bits { result = (result << 1) | (bit as u32); }
bits2num(bits) ==
    LET pass(result, i) == u32_or(u32_shl(result, 1), bit_as_u32(bits[i + 1]))
    IN ForRange(pass, u32_zero, 0, Len(bits))

Reverse(s) == [i \in 1..Len(s) |-> s[Len(s) + 1 - i]]

\* num2bits without its result.reverse(): the bits least-significant first
num2bits_unreversed(num, bit_count) ==
    LET pass(s, i) == [result |-> Append(s.result, BitAnd(s.num.lo, 1) = 1),
                       num |-> u32_shr1(s.num)]
    IN ForRange(pass, [result |-> <<>>, num |-> num], 0, bit_count).result

\* for _ in 0..bit_count { result.push((num & 1) == 1); num >>= 1; }  result.reverse()
num2bits(num, bit_count) ==
    LET pass(s, i) == [result |-> Append(s.result, BitAnd(s.num.lo, 1) = 1),
                       num |-> u32_shr1(s.num)]
    IN Reverse(ForRange(pass, [result |-> <<>>, num |-> num], 0, bit_count).result)

-----------------------------------------------------------------------------
(* Results of calls *)

Ok(v) == [tag |-> "Ok", val |-> v]

Panic == [tag |-> "Panic", val |-> <<>>]

Err(e) == [tag |-> e, val |-> <<>>]

-----------------------------------------------------------------------------
(* SBox, lib.rs 23-125 *)

\* a pass of ceil_log that halves rounding down: num = num >> 1
ceil_log_step_floor(num, res) == [num |-> num \div 2, res |-> res + 1]

\* one pass of the loop of ceil_log: res += 1; num = (num >> 1) + (num & 1)
ceil_log_step(num, res) == [num |-> (num \div 2) + (num % 2), res |-> res + 1]

\* while num > 1 { ... }  res
RECURSIVE ceil_log_loop(_, _)
ceil_log_loop(num, res) ==
    IF num > 1
    THEN LET s == ceil_log_step(num, res) IN ceil_log_loop(s.num, s.res)
    ELSE res

ceil_log(num) == ceil_log_loop(num, 0)

SetMax(S) == CHOOSE x \in S : \A y \in S : y <= x

\* the maximum of 0 and of ceil_log(el as usize) over the entries
max_bits(table) ==
    SetMax({0} \cup UNION {{ceil_log(table[i][j]) : j \in DOMAIN table[i]} : i \in DOMAIN table})

\* check_table without the loop over the rows
check_table_first_row(table) ==
    LET n == Len(table) IN
    IF n = 0 \/ n # 2^ceil_log(n) THEN FALSE
    ELSE
      LET m == Len(table[1]) IN
      IF m = 0 \/ m # 2^ceil_log(m) THEN FALSE
      ELSE IF max_bits(table) # ceil_log(n) + ceil_log(m) THEN FALSE
      ELSE TRUE

\* check_table without the test of max_bits
check_table_shape(table) ==
    LET n == Len(table) IN
    IF n = 0 \/ n # 2^ceil_log(n) THEN FALSE
    ELSE
      LET m == Len(table[1]) IN
      IF m = 0 \/ m # 2^ceil_log(m) THEN FALSE
      ELSE IF \E i \in DOMAIN table : Len(table[i]) # m THEN FALSE
      ELSE TRUE

check_table(table) ==
    LET n == Len(table) IN
    IF n = 0 \/ n # 2^ceil_log(n) THEN FALSE
    ELSE
      LET m == Len(table[1]) IN
      IF m = 0 \/ m # 2^ceil_log(m) THEN FALSE
      ELSE IF \E i \in DOMAIN table : Len(table[i]) # m THEN FALSE
      ELSE IF max_bits(table) # ceil_log(n) + ceil_log(m) THEN FALSE
      ELSE TRUE

\* the address with row and column exchanged: ((j as u32) << ceil_log(m)) | (i as u32)
address_swapped(i, j, m) == as_usize(u32_or(u32_shl(as_u32(j), ceil_log(m)), as_u32(i)))

\* ((i as u32) << ceil_log(m) as u32) | (j as u32)
address(i, j, m) == as_usize(u32_or(u32_shl(as_u32(i), ceil_log(m)), as_u32(j)))

\* the body of the loops of reverse_table at row i and column j; s is Ok(result),
\* or Panic once an index was out of bounds
reverse_table_cell(table, result_bits_count, s, i, j) ==
    IF s.tag = "Panic" THEN s
    ELSE IF j >= Len(table[i + 1]) THEN Panic
    ELSE
      LET bits == num2bits(as_u32(table[i + 1][j + 1]), result_bits_count)
          mid == ceil_log(Len(table))
      IN
      IF mid > Len(bits) THEN Panic
      ELSE
        LET outer == as_usize(bits2num(SubSeq(bits, 1, mid)))
            middle == as_usize(bits2num(SubSeq(bits, mid + 1, Len(bits))))
        IN
        IF outer >= Len(s.val) THEN Panic
        ELSE IF middle >= Len(s.val[outer + 1]) THEN Panic
        ELSE Ok([s.val EXCEPT ![outer + 1][middle + 1] = address(i, j, Len(table[1]))])

reverse_table(table) ==
    IF Len(table) = 0 THEN Panic
    ELSE
      LET result_bits_count == max_bits(table)
          n == Len(table)
          m == Len(table[1])
          row(s, i) ==
              LET cell(t, j) == reverse_table_cell(table, result_bits_count, t, i, j)
              IN ForRange(cell, s, 0, m)
      IN ForRange(row, Ok([i \in 1..n |-> [j \in 1..m |-> 0]]), 0, n)

SBox_transform(bits, table) ==
    LET outer_bits_count == ceil_log(Len(table)) IN
    IF outer_bits_count > Len(bits) THEN Panic
    ELSE
      LET outer == as_usize(bits2num(SubSeq(bits, 1, outer_bits_count)))
          middle == as_usize(bits2num(SubSeq(bits, outer_bits_count + 1, Len(bits))))
          result_bits_count == max_bits(table)
      IN
      IF outer >= Len(table) THEN Panic
      ELSE IF middle >= Len(table[outer + 1]) THEN Panic
      ELSE Ok(num2bits(as_u32(table[outer + 1][middle + 1]), result_bits_count))

\* SBox::new: the SBox, Err("invalid table"), or a panic of reverse_table
SBox_new(table) ==
    IF ~check_table(table) THEN Err("InvalidTable")
    ELSE
      LET inverse == reverse_table(table) IN
      IF inverse.tag = "Panic" THEN Panic
      ELSE Ok([kind |-> "SBox", table |-> table, inverse_table |-> inverse.val])

SBox_encrypt(self, bits) == SBox_transform(bits, self.table)

SBox_decrypt(self, bits) == SBox_transform(bits, self.inverse_table)

-----------------------------------------------------------------------------
(* PBox, lib.rs 127-194 *)

LimitLen == 32

\* is_permutation without `used |= bit_num`: no value is ever marked as seen
is_permutation_unmarked(permutation) ==
    LET n == Len(permutation)
        pass(s, i) ==
            IF ~s.ok THEN s
            ELSE
              LET num == permutation[i + 1] IN
              IF n < num \/ num = 0 THEN [s EXCEPT !.ok = FALSE]
              ELSE
                LET bit_num == u32_shl(as_u32(1), num - 1) IN
                IF u32_and(s.used, bit_num) # u32_zero THEN [s EXCEPT !.ok = FALSE]
                ELSE s
    IN
    IF ~(n <= LimitLen) THEN FALSE
    ELSE ForRange(pass, [ok |-> TRUE, used |-> u32_zero], 0, n).ok

\* s.ok: the loop has not returned false; s.used: the mask of the values seen
is_permutation(permutation) ==
    LET n == Len(permutation)
        pass(s, i) ==
            IF ~s.ok THEN s
            ELSE
              LET num == permutation[i + 1] IN
              IF n < num \/ num = 0 THEN [s EXCEPT !.ok = FALSE]
              ELSE
                LET bit_num == u32_shl(as_u32(1), num - 1) IN
                IF u32_and(s.used, bit_num) # u32_zero THEN [s EXCEPT !.ok = FALSE]
                ELSE [s EXCEPT !.used = u32_or(s.used, bit_num)]
    IN
    IF ~(n <= LimitLen) THEN FALSE
    ELSE ForRange(pass, [ok |-> TRUE, used |-> u32_zero], 0, n).ok

\* reverse_permutation that copies: reverse_permutation[i] = num
reverse_permutation_copy(permutation) ==
    LET pass(s, i) ==
            IF s.tag = "Panic" THEN s
            ELSE Ok([s.val EXCEPT ![i + 1] = permutation[i + 1]])
    IN ForRange(pass, Ok([i \in 1..Len(permutation) |-> 0]), 0, Len(permutation))

\* reverse_permutation[num as usize - 1] = i as u32 + 1
reverse_permutation(permutation) ==
    LET pass(s, i) ==
            IF s.tag = "Panic" THEN s
            ELSE
              LET num == permutation[i + 1] IN
              IF num = 0 \/ num - 1 >= Len(s.val) THEN Panic
              ELSE Ok([s.val EXCEPT ![num] = i + 1])
    IN ForRange(pass, Ok([i \in 1..Len(permutation) |-> 0]), 0, Len(permutation))

\* result[(permutation[i] - 1) as usize] = bits[i]
PBox_transform(bits, permutation) ==
    LET n == Len(bits)
        pass(s, i) ==
            IF s.tag = "Panic" THEN s
            ELSE IF i >= Len(permutation) THEN Panic
            ELSE IF permutation[i + 1] = 0 \/ permutation[i + 1] - 1 >= n THEN Panic
            ELSE Ok([s.val EXCEPT ![permutation[i + 1]] = bits[i + 1]])
    IN ForRange(pass, Ok([i \in 1..n |-> FALSE]), 0, n)

PBox_new(permutation) ==
    IF ~is_permutation(permutation) THEN Err("InvalidPermutation")
    ELSE
      LET inverse == reverse_permutation(permutation) IN
      IF inverse.tag = "Panic" THEN Panic
      ELSE Ok([kind |-> "PBox", permutation |-> permutation,
               inverse_permutation |-> inverse.val])

PBox_encrypt(self, bits) == PBox_transform(bits, self.permutation)

PBox_decrypt(self, bits) == PBox_transform(bits, self.inverse_permutation)

-----
(* Inputs *)

MaxCells == 4
MaxEl == 5
MaxBits == 4
MaxPermLen == 4
MaxNum == 40

BitVectors(k) == [1..k -> BOOLEAN]

SmallVectors == UNION {BitVectors(k) : k \in 0..MaxBits}

\* the vectors of tests::test1 and tests::test2: num2bits(0b11001010, 8), num2bits(0b11111111, 8)
TestVectors == {num2bits(as_u32(202), 8), num2bits(as_u32(255), 8)}

\* the table of tests::test1 (the AES S-box), 16 rows of 16 entries
TestTable ==
    << <<99, 124, 119, 123, 242, 107, 111, 197, 48, 1, 103, 43, 254, 215, 171, 118>>,
       <<202, 130, 201, 125, 250, 89, 71, 240, 173, 212, 162, 175, 156, 164, 114, 192>>,
       <<183, 253, 147, 38, 54, 63, 247, 204, 52, 165, 229, 241, 113, 216, 49, 21>>,
       <<4, 199, 35, 195, 24, 150, 5, 154, 7, 18, 128, 226, 235, 39, 178, 117>>,
       <<9, 131, 44, 26, 27, 110, 90, 160, 82, 59, 214, 179, 41, 227, 47, 132>>,
       <<83, 209, 0, 237, 32, 252, 177, 91, 106, 203, 190, 57, 74, 76, 88, 207>>,
       <<208, 239, 170, 251, 67, 77, 51, 133, 69, 249, 2, 127, 80, 60, 159, 168>>,
       <<81, 163, 64, 143, 146, 157, 56, 245, 188, 182, 218, 33, 16, 255, 243, 210>>,
       <<205, 12, 19, 236, 95, 151, 68, 23, 196, 167, 126, 61, 100, 93, 25, 115>>,
       <<96, 129, 79, 220, 34, 42, 144, 136, 70, 238, 184, 20, 222, 94, 11, 219>>,
       <<224, 50, 58, 10, 73, 6, 36, 92, 194, 211, 172, 98, 145, 149, 228, 121>>,
       <<231, 200, 55, 109, 141, 213, 78, 169, 108, 86, 244, 234, 101, 122, 174, 8>>,
       <<186, 120, 37, 46, 28, 166, 180, 198, 232, 221, 116, 31, 75, 189, 139, 138>>,
       <<112, 62, 181, 102, 72, 3, 246, 14, 97, 53, 87, 185, 134, 193, 29, 158>>,
       <<225, 248, 152, 17, 105, 217, 142, 148, 155, 30, 135, 233, 206, 85, 40, 223>>,
       <<140, 161, 137, 13, 191, 230, 66, 104, 65, 153, 45, 15, 176, 84, 187, 22>> >>

\* the permutation of tests::test2
TestPermutation == <<4, 2, 7, 1, 3, 8, 5, 6>>

\* vectors around the width of a u32 and the longest permutation
LongVectors ==
    UNION {{[i \in 1..k |-> TRUE], [i \in 1..k |-> FALSE], [i \in 1..k |-> i = 1],
            [i \in 1..k |-> i = k], [i \in 1..k |-> i % 2 = 0]}
           : k \in {LimitLen - 1, LimitLen, LimitLen + 1}}

Shapes == {s \in (1..MaxCells) \X (1..MaxCells) : s[1] * s[2] <= MaxCells}

RectTables(n, m) == [1..n -> [1..m -> 0..MaxEl]]

RectInputs == UNION {RectTables(s[1], s[2]) : s \in Shapes}

\* a table with one row (the first or the last) one entry short
RaggedInputs ==
    UNION {{[t EXCEPT ![r] = SubSeq(t[r], 1, Len(t[r]) - 1)] : r \in {1, Len(t)}}
           : t \in {u \in RectInputs : Len(u) >= 2}}

\* the table of n rows and m columns whose cell of address k holds (a * k + c) % (n * m)
AffineTable(n, m, a, c) ==
    [i \in 1..n |-> [j \in 1..m |-> (a * ((i - 1) * m + (j - 1)) + c) % (n * m)]]

\* tables of 8 cells, bijective (a odd) or not; a table of 15 rows; no row; empty rows;
\* the table of tests::test1; tables with a large entry
ExtraTables ==
    {AffineTable(s[1], s[2], a, c) : s \in {<<2, 4>>, <<4, 2>>}, a \in 0..7, c \in 0..7}
    \cup {[i \in 1..15 |-> <<i - 1>>], <<>>, <<<<>>>>, <<<<>>, <<>>>>, TestTable,
          <<<<2147483647>>>>, <<<<0, 2147483647>>, <<1, 2>>>>}

TableInputs == RectInputs \cup RaggedInputs \cup ExtraTables

PermInputs ==
    UNION {[1..k -> 0..(MaxPermLen + 1)] : k \in 0..MaxPermLen}
    \cup {TestPermutation}
    \cup {[i \in 1..k |-> i] : k \in {LimitLen, LimitLen + 1}}
    \cup {[i \in 1..k |-> (i % k) + 1] : k \in {LimitLen, LimitLen + 1}}
    \cup {[i \in 1..LimitLen |-> IF i = LimitLen THEN 1 ELSE i]}

-----------------------------------------------------------------------------
(* The state: the box under construction or in use, and the last call *)

VARIABLES box, last, cl

vars == <<box, last, cl>>

NoBox == [kind |-> "None"]

Call(op, arg, res) == [op |-> op, arg |-> arg, res |-> res, chained |-> FALSE, from |-> <<>>]

\* a call whose argument is the result of the call before, made on the input `from`
Chained(op, arg, res, from) ==
    [op |-> op, arg |-> arg, res |-> res, chained |-> TRUE, from |-> from]

NoCall == Call("none", <<>>, Ok(<<>>))

ClIdle == [pc |-> "idle", arg |-> 0, num |-> 0, res |-> 0]

Init == box = NoBox /\ last = NoCall /\ cl = ClIdle

Fresh == box = NoBox /\ last.op = "none"

\* a box just built: the calls on it are pure and leave it as it is, so each call
\* is made on the box as built
Built(kind) == box.kind = kind /\ last.op \in {"SBox::new", "PBox::new"}

SBoxInputs == SmallVectors \cup TestVectors

PBoxInputs == SmallVectors \cup TestVectors \cup LongVectors

SBoxNew ==
    /\ Fresh
    /\ \E table \in TableInputs :
         LET r == SBox_new(table) IN
         /\ box' = IF r.tag = "Ok" THEN r.val ELSE NoBox
         /\ last' = Call("SBox::new", table, [tag |-> r.tag, val |-> <<>>])
    /\ UNCHANGED cl

SBoxEncrypt ==
    /\ Built("SBox")
    /\ \E bits \in SBoxInputs :
         last' = Call("SBox::encrypt", bits, SBox_encrypt(box, bits))
    /\ UNCHANGED <<box, cl>>

SBoxDecrypt ==
    /\ Built("SBox")
    /\ \E bits \in SBoxInputs :
         last' = Call("SBox::decrypt", bits, SBox_decrypt(box, bits))
    /\ UNCHANGED <<box, cl>>

\* decrypt(encrypt(v)), as in tests::test1
SBoxDecryptEncrypted ==
    /\ box.kind = "SBox" /\ last.op = "SBox::encrypt" /\ last.res.tag = "Ok"
    /\ last' = Chained("SBox::decrypt", last.res.val, SBox_decrypt(box, last.res.val), last.arg)
    /\ UNCHANGED <<box, cl>>

PBoxNew ==
    /\ Fresh
    /\ \E permutation \in PermInputs :
         LET r == PBox_new(permutation) IN
         /\ box' = IF r.tag = "Ok" THEN r.val ELSE NoBox
         /\ last' = Call("PBox::new", permutation, [tag |-> r.tag, val |-> <<>>])
    /\ UNCHANGED cl

PBoxEncrypt ==
    /\ Built("PBox")
    /\ \E bits \in PBoxInputs :
         last' = Call("PBox::encrypt", bits, PBox_encrypt(box, bits))
    /\ UNCHANGED <<box, cl>>

PBoxDecrypt ==
    /\ Built("PBox")
    /\ \E bits \in PBoxInputs :
         last' = Call("PBox::decrypt", bits, PBox_decrypt(box, bits))
    /\ UNCHANGED <<box, cl>>

\* decrypt(encrypt(v)), as in tests::test2
PBoxDecryptEncrypted ==
    /\ box.kind = "PBox" /\ last.op = "PBox::encrypt" /\ last.res.tag = "Ok"
    /\ last' = Chained("PBox::decrypt", last.res.val, PBox_decrypt(box, last.res.val), last.arg)
    /\ UNCHANGED <<box, cl>>

Bits2Num ==
    /\ Fresh
    /\ \E bits \in PBoxInputs :
         last' = Call("bits2num", bits, Ok(bits2num(bits)))
    /\ UNCHANGED <<box, cl>>

Num2Bits ==
    /\ Fresh
    /\ \E x \in 0..MaxEl, bit_count \in 0..MaxBits :
         last' = Call("num2bits", <<as_u32(x), bit_count>>,
                      Ok(num2bits(as_u32(x), bit_count)))
    /\ UNCHANGED <<box, cl>>

\* num2bits(bits2num(v), v.len())
Num2BitsOfBits2Num ==
    /\ last.op = "bits2num"
    /\ last' = Chained("num2bits", <<last.res.val, Len(last.arg)>>,
                       Ok(num2bits(last.res.val, Len(last.arg))), last.arg)
    /\ UNCHANGED <<box, cl>>

Next ==
    \/ SBoxNew
    \/ SBoxEncrypt
    \/ SBoxDecrypt
    \/ SBoxDecryptEncrypted
    \/ PBoxNew
    \/ PBoxEncrypt
    \/ PBoxDecrypt
    \/ PBoxDecryptEncrypted
    \/ Bits2Num
    \/ Num2Bits
    \/ Num2BitsOfBits2Num

Spec == Init /\ [][Next]_vars

-----------------------------------------------------------------------------
(* ceil_log run pass by pass *)

InitCeilLog ==
    /\ box = NoBox /\ last = NoCall
    /\ \E n \in 0..MaxNum : cl = [pc |-> "loop", arg |-> n, num |-> n, res |-> 0]

\* while num > 1 { res += 1; num = (num >> 1) + (num & 1); }
CeilLogPass ==
    /\ cl.pc = "loop" /\ cl.num > 1
    /\ LET s == ceil_log_step(cl.num, cl.res) IN
       cl' = [cl EXCEPT !.num = s.num, !.res = s.res]
    /\ UNCHANGED <<box, last>>

CeilLogReturn ==
    /\ cl.pc = "loop" /\ ~(cl.num > 1)
    /\ cl' = [cl EXCEPT !.pc = "done"]
    /\ UNCHANGED <<box, last>>

NextCeilLog == CeilLogPass \/ CeilLogReturn

SpecCeilLog == InitCeilLog /\ [][NextCeilLog]_vars /\ WF_vars(NextCeilLog)

-----------------------------------------------------------------------------
(* Properties *)

U32Bits == 32

IsPow2(x) == \E k \in 0..x : x = 2^k

Entries(table) == UNION {{table[i][j] : j \in DOMAIN table[i]} : i \in DOMAIN table}

\* b = ceil_log(n) + ceil_log(m) of a table with at least one row
Width(table) == ceil_log(Len(table)) + ceil_log(Len(table[1]))

Rectangular(table) == \A i \in DOMAIN table : Len(table[i]) = Len(table[1])

\* a rectangular table of n rows and m columns, n and m nonzero powers of two
WellShaped(table) ==
    /\ Len(table) # 0 /\ IsPow2(Len(table))
    /\ Len(table[1]) # 0 /\ IsPow2(Len(table[1]))
    /\ Rectangular(table)

\* the table is a bijection on the values of Width(table) bits
Bijective(table) ==
    /\ Entries(table) = 0..(2^Width(table) - 1)
    /\ \A i1, i2 \in DOMAIN table : \A j1 \in DOMAIN table[i1], j2 \in DOMAIN table[i2] :
          table[i1][j1] = table[i2][j2] => i1 = i2 /\ j1 = j2

\* the number of bits required to represent x: the least k with x < 2^k
RECURSIVE BitLen(_)
BitLen(x) == IF x = 0 THEN 0 ELSE 1 + BitLen(x \div 2)

Transforms == {"SBox::encrypt", "SBox::decrypt", "PBox::encrypt", "PBox::decrypt"}

\* C1: on an SBox whose table is a bijection on b-bit values, encrypt of a vector v of
\* length b returns, and decrypt of what it returns is v.
SBoxRoundTrip ==
    (box.kind = "SBox" /\ Bijective(box.table)) =>
       /\ (last.op = "SBox::encrypt" /\ Len(last.arg) = Width(box.table))
             => last.res.tag = "Ok"
       /\ (last.op = "SBox::decrypt" /\ last.chained /\ Len(last.from) = Width(box.table))
             => last.res = Ok(last.from)

\* tests::test1: the AES table, v = 0b11001010, encrypted and decrypted back
SBoxRoundTripWitness ==
    /\ box.kind = "SBox" /\ box.table = TestTable /\ Bijective(box.table)
    /\ last.op = "SBox::decrypt" /\ last.chained
    /\ last.from = num2bits(as_u32(202), 8) /\ last.arg # last.from
    /\ last.res = Ok(last.from)

\* C2: on every PBox, encrypt of a vector v of the permutation's length returns, and
\* decrypt of what it returns is v.
PBoxRoundTrip ==
    box.kind = "PBox" =>
       /\ (last.op = "PBox::encrypt" /\ Len(last.arg) = Len(box.permutation))
             => last.res.tag = "Ok"
       /\ (last.op = "PBox::decrypt" /\ last.chained /\ Len(last.from) = Len(box.permutation))
             => last.res = Ok(last.from)

\* tests::test2: the permutation [4,2,7,1,3,8,5,6], v = 0b11001010
PBoxRoundTripWitness ==
    /\ box.kind = "PBox" /\ box.permutation = TestPermutation
    /\ last.op = "PBox::decrypt" /\ last.chained
    /\ last.from = num2bits(as_u32(202), 8) /\ last.arg # last.from
    /\ last.res = Ok(last.from)

\* C3 (as claimed): for a rectangular table of n rows and m columns, n and m nonzero
\* powers of two, SBox::new succeeds if and only if the largest number of bits required
\* to represent an entry is b = ceil_log(n) + ceil_log(m), and every entry of an
\* accepted table is less than 2^b.
SBoxNewIffWidthExact ==
    (last.op = "SBox::new" /\ WellShaped(last.arg)) =>
       /\ last.res.tag = "Ok"
             <=> SetMax({BitLen(el) : el \in Entries(last.arg)}) = Width(last.arg)
       /\ last.res.tag = "Ok" => \A el \in Entries(last.arg) : el < 2^Width(last.arg)

\* C4 (as claimed): encrypt or decrypt with a vector whose length is not that of the
\* box fails with InvalidInputLength: it neither panics nor returns a vector.
WrongLengthFails ==
    /\ (box.kind = "SBox" /\ last.op \in Transforms /\ Len(last.arg) # Width(box.table))
          => last.res.tag = "InvalidInputLength"
    /\ (box.kind = "PBox" /\ last.op \in Transforms /\ Len(last.arg) # Len(box.permutation))
          => last.res.tag = "InvalidInputLength"

\* the sequence is a bijection on {1, ..., length}
IsBijection(p) ==
    /\ {p[i] : i \in DOMAIN p} = 1..Len(p)
    /\ \A i, j \in DOMAIN p : p[i] = p[j] => i = j

\* C5: PBox::new succeeds if and only if the sequence is no longer than 32 and is a
\* bijection on {1, ..., length}; otherwise it returns InvalidPermutation.
PBoxNewIffPermutation ==
    last.op = "PBox::new" =>
       /\ last.res.tag = "Ok" <=> (Len(last.arg) <= LimitLen /\ IsBijection(last.arg))
       /\ last.res.tag = "Ok" => (box.kind = "PBox" /\ box.permutation = last.arg)
       /\ last.res.tag # "Ok" => (last.res.tag = "InvalidPermutation" /\ box = NoBox)
       /\ last.arg \in {<<1, 1>>, <<0, 1>>, <<1, 3>>} => last.res.tag = "InvalidPermutation"

\* a bijection on {1, ..., 33} is rejected for its length
PBoxNewIffPermutationWitness ==
    /\ last.op = "PBox::new" /\ Len(last.arg) = LimitLen + 1 /\ IsBijection(last.arg)
    /\ last.res.tag = "InvalidPermutation"

\* C6: SBox::new returns InvalidTable for every table whose row count is zero or no
\* power of two, whose column count (the length of the first row) is zero or no power
\* of two, or whose rows are not all of the same length.
SBoxNewRejectsShape ==
    (last.op = "SBox::new" /\ ~WellShaped(last.arg)) =>
       (last.res.tag = "InvalidTable" /\ box = NoBox)

\* a table of 15 rows is rejected
SBoxNewRejectsShapeWitness ==
    /\ last.op = "SBox::new" /\ Len(last.arg) = 15 /\ Rectangular(last.arg)
    /\ last.res.tag = "InvalidTable"

\* C7 (as claimed): num2bits(bits2num(v), k) = v for a bit vector v of any length k.
CodecRoundTripAnyLength ==
    (last.op = "num2bits" /\ last.chained) => last.res = Ok(last.from)

\* C7 (amended): num2bits(bits2num(v), k) = v exactly when the bits of v before its
\* last 32 are all false, so for every v of length k <= 32; otherwise the result is v
\* with these bits false.
CodecRoundTrip ==
    (last.op = "num2bits" /\ last.chained) =>
       LET k == Len(last.from) IN
       /\ last.res.tag = "Ok" /\ Len(last.res.val) = k
       /\ \A i \in 1..k : last.res.val[i] = (i > k - U32Bits /\ last.from[i])
       /\ k <= U32Bits => last.res = Ok(last.from)

\* a vector of 32 bits with its first bit set comes back
CodecRoundTripWitness ==
    /\ last.op = "num2bits" /\ last.chained
    /\ Len(last.from) = U32Bits /\ last.from[1] /\ ~last.from[2]
    /\ last.res = Ok(last.from)

\* the values of tests::test_ceil_log
CeilLogExamples == (1 :> 0) @@ (8 :> 3) @@ (9 :> 4) @@ (15 :> 4) @@ (16 :> 4) @@ (17 :> 5)

\* C8: for n >= 1 the loop of ceil_log ends, with the least c >= 0 such that 2^c >= n:
\* ceil_log(1)=0, ceil_log(8)=3, ceil_log(9)=4, ceil_log(15)=4, ceil_log(16)=4,
\* ceil_log(17)=5.
CeilLogMinimal ==
    /\ <>(cl.pc = "done")
    /\ []((cl.pc = "done" /\ cl.arg >= 1) =>
            /\ 2^cl.res >= cl.arg
            /\ \A c \in 0..(cl.res - 1) : 2^c < cl.arg
            /\ cl.res = ceil_log(cl.arg)
            /\ cl.arg \in DOMAIN CeilLogExamples => cl.res = CeilLogExamples[cl.arg])

CeilLogMinimalWitness == cl.pc = "done" /\ cl.arg = 17 /\ cl.res = 5 /\ cl.num = 1

\* C9 (as claimed): on every SBox, encrypt and decrypt of a vector of length b return a
\* vector of length b.
SBoxOutputWidth ==
    (box.kind = "SBox" /\ last.op \in {"SBox::encrypt", "SBox::decrypt"}
       /\ Len(last.arg) = Width(box.table)) =>
       (last.res.tag = "Ok" /\ Len(last.res.val) = Width(box.table))

\* C10: SBox::new never panics: it returns InvalidTable and no SBox, or an SBox of the
\* table given whose inverse_table has the shape of the table and holds only addresses
\* (i << ceil_log(m)) | j, i < n, j < m, which are less than n * m.
SBoxNewTotal ==
    last.op = "SBox::new" =>
       \/ last.res.tag = "InvalidTable" /\ box = NoBox
       \/ /\ last.res.tag = "Ok" /\ box.kind = "SBox" /\ box.table = last.arg
          /\ LET n == Len(box.table)
                 m == Len(box.table[1])
             IN
             /\ Len(box.inverse_table) = n
             /\ \A r \in 1..n :
                   /\ Len(box.inverse_table[r]) = m /\ Len(box.table[r]) = m
                   /\ \A c \in 1..m :
                         /\ box.inverse_table[r][c] < n * m
                         /\ \E i \in 0..(n - 1), j \in 0..(m - 1) :
                               box.inverse_table[r][c] = address(i, j, m)

\* an SBox built from a table that is no bijection: some cell of the inverse table was
\* never written
SBoxNewTotalWitness ==
    /\ last.op = "SBox::new" /\ last.res.tag = "Ok" /\ box.kind = "SBox"
    /\ Len(box.table) = 2 /\ Len(box.table[1]) = 2 /\ ~Bijective(box.table)
    /\ box.inverse_table[2][2] = 3 /\ box.inverse_table[1][2] = 0

=============================================================================
